---- MODULE Spec2Model ----
(***************************************************************************)
(* horizons-rs: the typed request builders (CommonBuilder, ElementsBuilder, *)
(* VectorsBuilder, QueryBuilder), the presets, the wire encoders and the    *)
(* body registry, as a state machine over one builder owned by one caller. *)
(***************************************************************************)
EXTENDS Integers, Sequences, FiniteSets, TLC

VARIABLES
    kind,       \* which constructor made the builder: "common", "elements", "vectors"
    common,     \* the CommonBuilder (QueryBuilder.common, or a bare CommonBuilder)
    specific,   \* QueryBuilder.specific: an ElementsBuilder or a VectorsBuilder (<<>> for a bare CommonBuilder)
    result,     \* the value the caller holds from the last build()/preset call (<<>>: none)
    wire,       \* the field list of the last serde_urlencoded::to_string(query) (<<>>: none)
    built,      \* build() calls on this builder since its last setter call, counted up to 2
    last,       \* the caller's last call: its name and its arguments (<<>>: none yet)
    nset,       \* number of setter calls made so far
    touched,    \* the builder fields the caller has called the setter of
    dirty,      \* the builder fields set after the build() whose Ok value the caller held, up to the build() after them
    reg         \* the last body-registry conversion: its argument, its value, where the argument came from

vars == <<kind, common, specific, result, wire, built, last, nset, touched, dirty, reg>>
builder == <<kind, common, specific, result, wire, built, last, nset, touched, dirty>>

\* ---------------------------------------------------------------- bounds
MaxSets == 2

\* ---------------------------------------------------------------- values
None == <<>>
Some(v) == <<v>>
Ok(v) == <<"Ok", v>>
Err(e) == <<"Err", e>>

EphemTypes == {"Observer", "Elements", "Vectors"}
Formats == {"Text", "Json"}
RefSystems == {"ICRF", "B1950"}
RefPlanes == {"Ecliptic", "Frame", "BodyEquator"}
OutUnitsSet == {"KM_D", "KM_S", "AU_D"}
Corrections == {"None", "LT", "LT_S"}
TpTypes == {"Absolute", "Relative"}
TableFormats == {"Position", "State", "State_LT", "Position_LT", "Velocity", "LT"}

RefSystem_default == "ICRF"
RefPlane_default == "Ecliptic"
OutUnits_default == "KM_S"
Correction_default == "None"
TpType_default == "Absolute"
TableFormat_default == "State_LT"

\* impl From<bool> for HzBool
HzBool_from(b) == IF b THEN "Yes" ELSE "No"

\* impl From<MajorBody> for Body
Body_from(b) == <<"MajorBody", b>>

\* impl<B: Into<Body>> From<B> for Command
Command_from(b) == <<"Body", Body_from(b)>>

\* impl<B: Into<Body>> From<B> for Center
Center_from(body) == [body |-> Body_from(body), site |-> <<"Center">>]

\* impl From<u16> for Site
Site_from(num) == <<"Custom", num>>

\* impl<S: Into<Site>, B: Into<Body>> From<(S, B)> for Center
Center_from_pair(site, body) == [body |-> Body_from(body), site |-> Site_from(site)]

\* impl From<(u32, StepSizeUnit)> for StepSize
StepSize_from(value, unit) == [value |-> value, unit |-> unit]

\* as TimeSpec_bounded, but start and stop are put in order
TimeSpec_bounded_ordered(step_size, start_time, stop_time) ==
    <<"Bounded", [step_size |-> StepSize_from(step_size[1], step_size[2]),
                  start_time |-> IF stop_time < start_time THEN stop_time ELSE start_time,
                  stop_time |-> IF stop_time < start_time THEN start_time ELSE stop_time]>>

\* TimeSpec::bounded
TimeSpec_bounded(step_size, start_time, stop_time) ==
    <<"Bounded", [step_size |-> StepSize_from(step_size[1], step_size[2]),
                  start_time |-> start_time, stop_time |-> stop_time]>>

\* TimeSpec::from_list
TimeSpec_from_list(list) == <<"List", [tlist |-> list]>>

\* ---------------------------------------------------------------- body registry
\* bodies! { MajorBody { .. } }: the variants and their codes, in declared order
MajorBodyTable == <<
    <<"SolarSystemBary", 0>>, <<"Sun", 10>>, <<"MercuryBary", 1>>, <<"Mercury", 199>>,
    <<"VenusBary", 2>>, <<"Venus", 299>>, <<"EarthMoonBary", 3>>, <<"Earth", 399>>,
    <<"Moon", 301>>, <<"EM_L1", 3011>>, <<"EM_L2", 3012>>, <<"EM_L4", 3014>>,
    <<"EM_L5", 3015>>, <<"SEMB_L1", 31>>, <<"SEMB_L2", 32>>, <<"SEMB_L4", 34>>,
    <<"SEMB_L5", 35>>, <<"MarsBary", 4>>, <<"Mars", 499>>, <<"Phobos", 401>>,
    <<"Deimos", 402>>, <<"JupiterBary", 5>>, <<"Jupiter", 599>>, <<"Io", 501>>,
    <<"Europa", 502>>, <<"Ganymede", 503>>, <<"Callisto", 504>>, <<"Amalthea", 505>>,
    <<"Himalia", 506>>, <<"Elara", 507>>, <<"Pasiphae", 508>>, <<"Sinope", 509>>,
    <<"Lysithea", 510>>, <<"Carme", 511>>, <<"Ananke", 512>>, <<"Leda", 513>>,
    <<"Thebe", 514>>, <<"Adrastea", 515>>, <<"Metis", 516>>, <<"Callirrhoe", 517>>,
    <<"Themisto", 518>>, <<"Megaclite", 519>>, <<"Taygete", 520>>, <<"Chaldene", 521>>,
    <<"Harpalyke", 522>>, <<"Kalyke", 523>>, <<"Iocaste", 524>>, <<"Erinome", 525>>,
    <<"Isonoe", 526>>, <<"Praxidike", 527>>, <<"Autonoe", 528>>, <<"Thyone", 529>>,
    <<"Hermippe", 530>>, <<"Aitne", 531>>, <<"Eurydome", 532>>, <<"Euanthe", 533>>,
    <<"Euporie", 534>>, <<"Orthosie", 535>>, <<"Sponde", 536>>, <<"Kale", 537>>,
    <<"Pasithee", 538>>, <<"Hegemone", 539>>, <<"Mneme", 540>>, <<"Aoede", 541>>,
    <<"Thelxinoe", 542>>, <<"Arche", 543>>, <<"Kallichore", 544>>, <<"Helike", 545>>,
    <<"Carpo", 546>>, <<"Eukelade", 547>>, <<"Cyllene", 548>>, <<"Kore", 549>>,
    <<"Herse", 550>>, <<"S2010J1", 551>>, <<"S2010J2", 552>>, <<"Dia", 553>>,
    <<"S2016J1", 554>>, <<"S2003J18", 555>>, <<"S2011J2", 556>>, <<"Eirene", 557>>,
    <<"Philophrosyne", 558>>, <<"S2017J1", 559>>, <<"Eupheme", 560>>, <<"S2003J19", 561>>,
    <<"Valetudo", 562>>, <<"S2017J2", 563>>, <<"S2017J3", 564>>, <<"Pandia", 565>>,
    <<"S2017J5", 566>>, <<"S2017J6", 567>>, <<"S2017J7", 568>>, <<"S2017J8", 569>>,
    <<"S2017J9", 570>>, <<"Ersa", 571>>, <<"S2011J1", 572>>, <<"S2003J2", 55501>>,
    <<"S2003J4", 55502>>, <<"S2003J9", 55503>>, <<"S2003J10", 55504>>, <<"S2003J12", 55505>>,
    <<"S2003J16", 55506>>, <<"S2003J23", 55507>>, <<"S2003J24", 55508>>, <<"SaturnBary", 6>>,
    <<"Saturn", 699>>, <<"Mimas", 601>>, <<"Enceladus", 602>>, <<"Tethys", 603>>,
    <<"Dione", 604>>, <<"Rhea", 605>>, <<"Titan", 606>>, <<"Hyperion", 607>>,
    <<"Iapetus", 608>>, <<"Phoebe", 609>>, <<"Janus", 610>>, <<"Epimetheus", 611>>,
    <<"Helene", 612>>, <<"Telesto", 613>>, <<"Calypso", 614>>, <<"Atlas", 615>>,
    <<"Prometheus", 616>>, <<"Pandora", 617>>, <<"Pan", 618>>, <<"Ymir", 619>>,
    <<"Paaliaq", 620>>, <<"Tarvos", 621>>, <<"Ijiraq", 622>>, <<"Suttungr", 623>>,
    <<"Kiviuq", 624>>, <<"Mundilfari", 625>>, <<"Albiorix", 626>>, <<"Skathi", 627>>,
    <<"Erriapus", 628>>, <<"Siarnaq", 629>>, <<"Thrymr", 630>>, <<"Narvi", 631>>,
    <<"Methone", 632>>, <<"Pallene", 633>>, <<"Polydeuces", 634>>, <<"Daphnis", 635>>,
    <<"Aegir", 636>>, <<"Bebhionn", 637>>, <<"Bergelmir", 638>>, <<"Bestla", 639>>,
    <<"Farbauti", 640>>, <<"Fenrir", 641>>, <<"Fornjot", 642>>, <<"Hati", 643>>,
    <<"Hyrrokkin", 644>>, <<"Kari", 645>>, <<"Loge", 646>>, <<"Skoll", 647>>,
    <<"Surtur", 648>>, <<"Anthe", 649>>, <<"Jarnsaxa", 650>>, <<"Greip", 651>>,
    <<"Tarqeq", 652>>, <<"Aegaeon", 653>>, <<"Gridr", 654>>, <<"Angrboda", 655>>,
    <<"Skrymir", 656>>, <<"Gerd", 657>>, <<"S2004S26", 658>>, <<"Eggther", 659>>,
    <<"S2004S29", 660>>, <<"Beli", 661>>, <<"Gunnlod", 662>>, <<"Thiazzi", 663>>,
    <<"S2004S34", 664>>, <<"Alvaldi", 665>>, <<"Geirrod", 666>>, <<"S2004S31", 65067>>,
    <<"S2004S24", 65070>>, <<"S2004S28", 65077>>, <<"S2004S21", 65079>>, <<"S2004S36", 65081>>,
    <<"S2004S37", 65082>>, <<"S2004S39", 65084>>, <<"S2004S7", 65085>>, <<"S2004S12", 65086>>,
    <<"S2004S13", 65087>>, <<"S2004S17", 65088>>, <<"S2006S1", 65089>>, <<"S2006S3", 65090>>,
    <<"S2007S2", 65091>>, <<"S2007S3", 65092>>, <<"S2019S1", 65093>>, <<"UranusBary", 7>>,
    <<"Uranus", 799>>, <<"Ariel", 701>>, <<"Umbriel", 702>>, <<"Titania", 703>>,
    <<"Oberon", 704>>, <<"Miranda", 705>>, <<"Cordelia", 706>>, <<"Ophelia", 707>>,
    <<"Bianca", 708>>, <<"Cressida", 709>>, <<"Desdemona", 710>>, <<"Juliet", 711>>,
    <<"Portia", 712>>, <<"Rosalind", 713>>, <<"Belinda", 714>>, <<"Puck", 715>>,
    <<"Caliban", 716>>, <<"Sycorax", 717>>, <<"Prospero", 718>>, <<"Setebos", 719>>,
    <<"Stephano", 720>>, <<"Trinculo", 721>>, <<"Francisco", 722>>, <<"Margaret", 723>>,
    <<"Ferdinand", 724>>, <<"Perdita", 725>>, <<"Mab", 726>>, <<"Cupid", 727>>,
    <<"NeptuneBary", 8>>, <<"Neptune", 899>>, <<"Triton", 801>>, <<"Nereid", 802>>,
    <<"Naiad", 803>>, <<"Thalassa", 804>>, <<"Despina", 805>>, <<"Galatea", 806>>,
    <<"Larissa", 807>>, <<"Proteus", 808>>, <<"Halimede", 809>>, <<"Psamathe", 810>>,
    <<"Sao", 811>>, <<"Laomedeia", 812>>, <<"Neso", 813>>, <<"Hippocamp", 814>>,
    <<"PlutoBary", 9>>, <<"Pluto", 999>>, <<"Charon", 901>>, <<"Nix", 902>>, <<"Hydra", 903>>,
    <<"Kerberos", 904>>, <<"Styx", 905>> >>

MajorBodyNames == {MajorBodyTable[i][1] : i \in 1..Len(MajorBodyTable)}

\* Integers of 32, 64 and 128 bits are little-endian sequences of 16-bit limbs
\* holding the two's complement bit pattern.
Limb == 2^16
HalfLimb == 2^15

IntTypes == {"u32", "u64", "u128", "usize", "i32", "i64", "i128", "isize"}
PointerWidths == {32, 64}

Signed(ty) == ty \in {"i32", "i64", "i128", "isize"}

\* number of limbs of a value of type ty when usize/isize have pw bits
NLimbs(ty, pw) ==
    CASE ty \in {"u32", "i32"} -> 2
      [] ty \in {"u64", "i64"} -> 4
      [] ty \in {"u128", "i128"} -> 8
      [] ty \in {"usize", "isize"} -> pw \div 16

\* the bit pattern, on n limbs, of a literal 0 <= v < 2^31
ToLimbs(v, n) == [i \in 1..n |-> IF i = 1 THEN v % Limb ELSE IF i = 2 THEN v \div Limb ELSE 0]

IsNegative(ty, bits) == Signed(ty) /\ bits[Len(bits)] >= HalfLimb

\* `num as i64`: truncation to the low 64 bits, or zero/sign extension to 64 bits
as_i64(ty, bits) ==
    IF Len(bits) >= 4 THEN SubSeq(bits, 1, 4)
    ELSE bits \o [i \in 1..(4 - Len(bits)) |-> IF IsNegative(ty, bits) THEN Limb - 1 ELSE 0]

\* as MajorBody_as_u32, but the cast keeps the low 8 bits only (`b as u8`)
MajorBody_as_u32_low_byte(b) ==
    MajorBodyTable[CHOOSE i \in 1..Len(MajorBodyTable) : MajorBodyTable[i][1] = b][2] % 256

\* impl_from_int_for_enum!(u32, MajorBody): `b as u32`, the discriminant
MajorBody_as_u32(b) ==
    MajorBodyTable[CHOOSE i \in 1..Len(MajorBodyTable) : MajorBodyTable[i][1] = b][2]

InvalidBodyCode(i64) == <<"InvalidBodyCode", i64>>

\* impl TryFrom<$int> for MajorBody: the first arm whose literal equals num, else the error
MajorBody_try_from(ty, bits) ==
    LET arms == {i \in 1..Len(MajorBodyTable) : ToLimbs(MajorBodyTable[i][2], Len(bits)) = bits}
    IN  IF arms = {} THEN Err(InvalidBodyCode(as_i64(ty, bits)))
        ELSE Ok(MajorBodyTable[CHOOSE i \in arms : \A j \in arms : i <= j][1])

\* ---------------------------------------------------------------- inputs
\* Instants are days after 2022-08-28T00:00:00Z.
Jupiter == "Jupiter"
Europa == "Europa"
SolarSystemBary == "SolarSystemBary"

CommandInputs == {Command_from(Jupiter), <<"Custom", "DES=2000001">>}
CenterInputs == {Center_from(SolarSystemBary), Center_from_pair(399, Jupiter)}
TimeSpecInputs == {TimeSpec_bounded(<<6, "Hours">>, 0, 2),
                   TimeSpec_from_list(<<3>>),
                   TimeSpec_from_list(<<1, 0>>)}

\* ---------------------------------------------------------------- CommonBuilder
\* as CommonBuilder_default, but obj_data starts false
CommonBuilder_default_no_obj_data ==
    [command |-> None, ephem_type |-> None, center |-> None,
     ref_system |-> RefSystem_default, time_spec |-> None, format |-> "Text",
     obj_data |-> FALSE, make_ephem |-> TRUE, csv_format |-> FALSE]

CommonBuilder_default ==
    [command |-> None, ephem_type |-> None, center |-> None,
     ref_system |-> RefSystem_default, time_spec |-> None, format |-> "Text",
     obj_data |-> TRUE, make_ephem |-> TRUE, csv_format |-> FALSE]

CommonBuilder_new == CommonBuilder_default

CommonBuilder_command(self, command) == [self EXCEPT !.command = Some(command)]
CommonBuilder_ephem_type(self, ephem_type) == [self EXCEPT !.ephem_type = Some(ephem_type)]
\* as CommonBuilder_center, but the value is not stored
CommonBuilder_center_dropped(self, center) == self

CommonBuilder_center(self, center) == [self EXCEPT !.center = Some(center)]
CommonBuilder_ref_system(self, ref_system) == [self EXCEPT !.ref_system = ref_system]
CommonBuilder_time_spec(self, time_spec) == [self EXCEPT !.time_spec = Some(time_spec)]
\* as CommonBuilder_format, but ref_system goes back to its default
CommonBuilder_format_resets_ref_system(self, format) ==
    [self EXCEPT !.format = format, !.ref_system = RefSystem_default]

CommonBuilder_format(self, format) == [self EXCEPT !.format = format]
CommonBuilder_obj_data(self, obj_data) == [self EXCEPT !.obj_data = obj_data]
CommonBuilder_make_ephem(self, make_ephem) == [self EXCEPT !.make_ephem = make_ephem]
\* as CommonBuilder_csv_format, but the value lands in obj_data
CommonBuilder_csv_format_into_obj_data(self, csv_format) == [self EXCEPT !.obj_data = csv_format]

CommonBuilder_csv_format(self, csv_format) == [self EXCEPT !.csv_format = csv_format]

UninitializedField(name) == <<"UninitializedField", name>>

\* as CommonBuilder_build, but center is checked before ephem_type
CommonBuilder_build_center_first(self) ==
    IF self.command = None THEN Err(UninitializedField("command"))
    ELSE IF self.center = None THEN Err(UninitializedField("center"))
    ELSE IF self.ephem_type = None THEN Err(UninitializedField("ephem_type"))
    ELSE IF self.time_spec = None THEN Err(UninitializedField("time_spec"))
    ELSE Ok([command |-> self.command[1],
             ephem_type |-> self.ephem_type[1],
             center |-> self.center[1],
             ref_system |-> self.ref_system,
             time_spec |-> self.time_spec[1],
             format |-> self.format,
             obj_data |-> HzBool_from(self.obj_data),
             make_ephem |-> HzBool_from(self.make_ephem),
             csv_format |-> HzBool_from(self.csv_format)])

\* CommonBuilder::build: the four ok_or(..)? in order, then the Common value
CommonBuilder_build(self) ==
    IF self.command = None THEN Err(UninitializedField("command"))
    ELSE IF self.ephem_type = None THEN Err(UninitializedField("ephem_type"))
    ELSE IF self.center = None THEN Err(UninitializedField("center"))
    ELSE IF self.time_spec = None THEN Err(UninitializedField("time_spec"))
    ELSE Ok([command |-> self.command[1],
             ephem_type |-> self.ephem_type[1],
             center |-> self.center[1],
             ref_system |-> self.ref_system,
             time_spec |-> self.time_spec[1],
             format |-> self.format,
             obj_data |-> HzBool_from(self.obj_data),
             make_ephem |-> HzBool_from(self.make_ephem),
             csv_format |-> HzBool_from(self.csv_format)])

\* as CommonBuilder_build_self, but command is taken out of the builder (take() for clone())
CommonBuilder_build_self_take(self) == [self EXCEPT !.command = None]

\* as CommonBuilder_build_self, but the builder is consumed and left at its default
CommonBuilder_build_self_reset(self) == CommonBuilder_default

\* build(&self): the Option fields are cloned, not taken; the builder is left as it was
CommonBuilder_build_self(self) == self

\* ---------------------------------------------------------------- ElementsBuilder
ElementsBuilder_default ==
    [tp_type |-> TpType_default, out_units |-> OutUnits_default,
     ref_plane |-> RefPlane_default, elm_labels |-> TRUE]

ElementsBuilder_tp_type(self, tp_type) == [self EXCEPT !.tp_type = tp_type]
ElementsBuilder_out_units(self, out_units) == [self EXCEPT !.out_units = out_units]
ElementsBuilder_ref_plane(self, ref_plane) == [self EXCEPT !.ref_plane = ref_plane]
ElementsBuilder_elm_labels(self, elm_labels) == [self EXCEPT !.elm_labels = elm_labels]

ElementsBuilder_build(self) ==
    [tp_type |-> self.tp_type, out_units |-> self.out_units,
     ref_plane |-> self.ref_plane, elm_labels |-> HzBool_from(self.elm_labels)]

\* ---------------------------------------------------------------- VectorsBuilder
\* The fields of api/ephemeris/vectors.rs
VectorsBuilder_default_fields ==
    [out_units |-> OutUnits_default, ref_plane |-> RefPlane_default, vec_labels |-> TRUE,
     vec_delta_t |-> FALSE, vec_corr |-> Correction_default]

\* request::ephemeris::vectors::VectorsBuilder adds the table format
VectorsBuilder_default ==
    LET fields == VectorsBuilder_default_fields
    IN  [out_units |-> fields.out_units,
         ref_plane |-> fields.ref_plane, vec_labels |-> fields.vec_labels,
         vec_delta_t |-> fields.vec_delta_t, vec_corr |-> fields.vec_corr,
         table_format |-> TableFormat_default]

VectorsBuilder_table_format(self, table_format) == [self EXCEPT !.table_format = table_format]
VectorsBuilder_vec_labels(self, vec_labels) == [self EXCEPT !.vec_labels = vec_labels]
VectorsBuilder_vec_delta_t(self, vec_delta_t) == [self EXCEPT !.vec_delta_t = vec_delta_t]
VectorsBuilder_vec_corr(self, vec_corr) == [self EXCEPT !.vec_corr = vec_corr]
VectorsBuilder_out_units(self, out_units) == [self EXCEPT !.out_units = out_units]
VectorsBuilder_ref_plane(self, ref_plane) == [self EXCEPT !.ref_plane = ref_plane]

VectorsBuilder_build_fields(self) ==
    [out_units |-> self.out_units,
     ref_plane |-> self.ref_plane,
     vec_labels |-> HzBool_from(self.vec_labels),
     vec_delta_t |-> HzBool_from(self.vec_delta_t),
     vec_corr |-> self.vec_corr]

VectorsBuilder_build(self) ==
    LET fields == VectorsBuilder_build_fields(self)
    IN  [out_units |-> fields.out_units,
         ref_plane |-> fields.ref_plane, vec_labels |-> fields.vec_labels,
         vec_delta_t |-> fields.vec_delta_t, vec_corr |-> fields.vec_corr,
         vec_table |-> self.table_format]

\* ---------------------------------------------------------------- QueryBuilder
Query_elements ==
    [common |-> CommonBuilder_ephem_type(CommonBuilder_new, "Elements"),
     specific |-> ElementsBuilder_default]

Query_vectors ==
    [common |-> CommonBuilder_ephem_type(CommonBuilder_new, "Vectors"),
     specific |-> VectorsBuilder_default]

\* as QueryBuilderError_from, but the wrapped error always names command
QueryBuilderError_from_command(x) == <<"CommonBuilderError", UninitializedField("command")>>

\* impl_from_for_inner_enum!(QueryBuilderError: CommonBuilderError)
QueryBuilderError_from(x) == <<"CommonBuilderError", x>>

\* impl QueryBuilder<ElementsBuilder>::build
QueryBuilder_build_elements(self) ==
    LET c == CommonBuilder_build(self.common)
    IN  IF c[1] = "Err" THEN Err(QueryBuilderError_from(c[2]))
        ELSE Ok([common |-> c[2],
                 specific |-> <<"Elements", ElementsBuilder_build(self.specific)>>])

\* impl QueryBuilder<VectorsBuilder>::build
QueryBuilder_build_vectors(self) ==
    LET c == CommonBuilder_build(self.common)
    IN  IF c[1] = "Err" THEN Err(QueryBuilderError_from(c[2]))
        ELSE Ok([common |-> c[2],
                 specific |-> <<"Vectors", VectorsBuilder_build(self.specific)>>])

\* ---------------------------------------------------------------- presets
\* fn vectors(target, center, time) -> QueryBuilder<VectorsBuilder>
presets_vectors(target, center, time) ==
    LET query == Query_vectors
    IN  [query EXCEPT !.common =
            CommonBuilder_time_spec(
                CommonBuilder_center(
                    CommonBuilder_command(query.common, <<"Body", target>>),
                    center),
                time)]

\* Result::unwrap
Result_unwrap(r) == IF r[1] = "Ok" THEN <<"Query", r[2]>> ELSE <<"panic", r[2]>>

state_vectors(target, center, time) ==
    LET query == presets_vectors(target, center, time)
    IN  Result_unwrap(QueryBuilder_build_vectors(
            [query EXCEPT !.specific = VectorsBuilder_table_format(query.specific, "State")]))

position_vectors(target, center, time) ==
    LET query == presets_vectors(target, center, time)
    IN  Result_unwrap(QueryBuilder_build_vectors(
            [query EXCEPT !.specific = VectorsBuilder_table_format(query.specific, "Position")]))

\* as velocity_vector, but with the table format of state_vectors
velocity_vector_as_state(target, center, time) ==
    LET query == presets_vectors(target, center, time)
    IN  Result_unwrap(QueryBuilder_build_vectors(
            [query EXCEPT !.specific = VectorsBuilder_table_format(query.specific, "State")]))

velocity_vector(target, center, time) ==
    LET query == presets_vectors(target, center, time)
    IN  Result_unwrap(QueryBuilder_build_vectors(
            [query EXCEPT !.specific = VectorsBuilder_table_format(query.specific, "Velocity")]))

light_time_vectors(target, center, time) ==
    LET query == presets_vectors(target, center, time)
    IN  Result_unwrap(QueryBuilder_build_vectors(
            [query EXCEPT !.specific = VectorsBuilder_table_format(query.specific, "LT")]))

TargetInputs == {Body_from(Europa), <<"Custom", "DES=2000001">>}
PresetCenterInputs == CenterInputs \cup {Center_from(Jupiter)}

\* ---------------------------------------------------------------- wire encoders
\* #[serde(rename = ..)] on HzBool
HzBool_serialize(b) == CASE b = "Yes" -> "yes" [] b = "No" -> "no"

EphemType_serialize(e) ==
    CASE e = "Observer" -> "O" [] e = "Elements" -> "E" [] e = "Vectors" -> "V"

Format_serialize(f) == CASE f = "Text" -> "text" [] f = "Json" -> "json"

OutUnits_serialize(u) ==
    CASE u = "KM_D" -> "km-d" [] u = "KM_S" -> "km-s" [] u = "AU_D" -> "au-d"

RefPlane_serialize(p) ==
    CASE p = "Ecliptic" -> "E" [] p = "Frame" -> "F" [] p = "BodyEquator" -> "B"

\* derive(Serialize) without rename: the variant's name
RefSystem_serialize(r) == CASE r = "ICRF" -> "ICRF" [] r = "B1950" -> "B1950"

TpType_serialize(t) == CASE t = "Absolute" -> "Absolute" [] t = "Relative" -> "Relative"

\* as Correction_serialize, but LT_S lacks its serde rename
Correction_serialize_no_rename(c) ==
    CASE c = "None" -> "NONE" [] c = "LT" -> "LT" [] c = "LT_S" -> "LT_S"

Correction_serialize(c) ==
    CASE c = "None" -> "NONE" [] c = "LT" -> "LT" [] c = "LT_S" -> "LT+S"

\* impl_from_int_for_enum!(u8, TableFormat): the discriminant
TableFormat_as_u8(t) ==
    CASE t = "Position" -> 1 [] t = "State" -> 2 [] t = "State_LT" -> 3
      [] t = "Position_LT" -> 4 [] t = "Velocity" -> 5 [] t = "LT" -> 6

TableFormat_serialize(t) == ToString(TableFormat_as_u8(t))

\* as StepSizeUnit_as_hz_unit, but months are abbreviated like minutes
StepSizeUnit_as_hz_unit_months_m(u) ==
    CASE u = "Days" -> "d" [] u = "Hours" -> "h" [] u = "Minutes" -> "m"
      [] u = "Years" -> "y" [] u = "Months" -> "m" [] u = "Unitless" -> ""

StepSizeUnit_as_hz_unit(u) ==
    CASE u = "Days" -> "d" [] u = "Hours" -> "h" [] u = "Minutes" -> "m"
      [] u = "Years" -> "y" [] u = "Months" -> "mo" [] u = "Unitless" -> ""

\* Display for StepSize, used by its Serialize
StepSize_serialize(s) == ToString(s.value) \o StepSizeUnit_as_hz_unit(s.unit)

\* Display for Body: a known body is its u32 code, a custom body the string as given
Body_display(b) == IF b[1] = "MajorBody" THEN ToString(MajorBody_as_u32(b[2])) ELSE b[2]

\* untagged Command: the inner value
Command_serialize(c) == IF c[1] = "Body" THEN Body_display(c[2]) ELSE c[2]

Site_display(s) == IF s[1] = "Center" THEN "500" ELSE ToString(s[2])

\* as Center_serialize, but the body is written before the site
Center_serialize_body_at_site(c) == Body_display(c.body) \o "@" \o Site_display(c.site)

\* Serialize for Center: format!("{}@{}", self.site, self.body) as one string
Center_serialize(c) == Site_display(c.site) \o "@" \o Body_display(c.body)

\* RFC 3339 in UTC with the Z marker; instant t is t days after 2022-08-28T00:00:00Z
DateTime_serialize(t) == "2022-08-" \o ToString(28 + t) \o "T00:00:00Z"

\* as TList_join, but the instants are joined last to first
RECURSIVE TList_join_reversed(_)
TList_join_reversed(l) ==
    IF l = <<>> THEN ""
    ELSE IF Len(l) = 1 THEN DateTime_serialize(l[1])
    ELSE TList_join_reversed(Tail(l)) \o "," \o DateTime_serialize(l[1])

\* iter().map(to_rfc3339_opts).collect::<Vec<_>>().join(",")
RECURSIVE TList_join(_)
TList_join(l) ==
    IF l = <<>> THEN ""
    ELSE IF Len(l) = 1 THEN DateTime_serialize(l[1])
    ELSE DateTime_serialize(l[1]) \o "," \o TList_join(Tail(l))

TList_serialize(l) == TList_join(l)

\* untagged TimeSpec, flattened into Common
TimeSpec_serialize(ts) ==
    IF ts[1] = "Bounded"
    THEN << <<"step_size", StepSize_serialize(ts[2].step_size)>>,
            <<"start_time", DateTime_serialize(ts[2].start_time)>>,
            <<"stop_time", DateTime_serialize(ts[2].stop_time)>> >>
    ELSE << <<"tlist", TList_serialize(ts[2].tlist)>> >>

\* as Common_serialize, but in the field order of CommonBuilder
Common_serialize_builder_order(c) ==
    << <<"command", Command_serialize(c.command)>>,
       <<"ephem_type", EphemType_serialize(c.ephem_type)>>,
       <<"center", Center_serialize(c.center)>>,
       <<"ref_system", RefSystem_serialize(c.ref_system)>> >>
    \o TimeSpec_serialize(c.time_spec)
    \o << <<"format", Format_serialize(c.format)>>,
          <<"obj_data", HzBool_serialize(c.obj_data)>>,
          <<"make_ephem", HzBool_serialize(c.make_ephem)>>,
          <<"csv_format", HzBool_serialize(c.csv_format)>> >>

\* derive(Serialize) for Common: the fields in declared order, time_spec flattened
Common_serialize(c) ==
    << <<"command", Command_serialize(c.command)>>,
       <<"ephem_type", EphemType_serialize(c.ephem_type)>>,
       <<"center", Center_serialize(c.center)>>,
       <<"ref_system", RefSystem_serialize(c.ref_system)>>,
       <<"format", Format_serialize(c.format)>>,
       <<"obj_data", HzBool_serialize(c.obj_data)>>,
       <<"make_ephem", HzBool_serialize(c.make_ephem)>>,
       <<"csv_format", HzBool_serialize(c.csv_format)>> >>
    \o TimeSpec_serialize(c.time_spec)

Elements_serialize(e) ==
    << <<"tp_type", TpType_serialize(e.tp_type)>>,
       <<"out_units", OutUnits_serialize(e.out_units)>>,
       <<"ref_plane", RefPlane_serialize(e.ref_plane)>>,
       <<"elm_labels", HzBool_serialize(e.elm_labels)>> >>

Vectors_serialize_fields(v) ==
    << <<"vec_labels", HzBool_serialize(v.vec_labels)>>,
       <<"vec_delta_t", HzBool_serialize(v.vec_delta_t)>>,
       <<"vec_corr", Correction_serialize(v.vec_corr)>>,
       <<"out_units", OutUnits_serialize(v.out_units)>>,
       <<"ref_plane", RefPlane_serialize(v.ref_plane)>> >>

Vectors_serialize(v) ==
    << <<"vec_table", TableFormat_serialize(v.vec_table)>> >> \o Vectors_serialize_fields(v)

\* untagged Ephemeris
Ephemeris_serialize(e) ==
    IF e[1] = "Elements" THEN Elements_serialize(e[2]) ELSE Vectors_serialize(e[2])

\* derive(Serialize) for Query: common flattened, then specific flattened
Query_serialize(q) == Common_serialize(q.common) \o Ephemeris_serialize(q.specific)

\* ---------------------------------------------------------------- the caller's steps
\* A builder the caller has constructed and on which the setters of some of
\* command, center and time_spec were already called, as presets::vectors does.
RequiredSet(c, fields) ==
    LET c1 == IF "command" \in fields THEN CommonBuilder_command(c, Command_from(Jupiter)) ELSE c
        c2 == IF "center" \in fields THEN CommonBuilder_center(c1, Center_from(SolarSystemBary)) ELSE c1
        c3 == IF "time_spec" \in fields
              THEN CommonBuilder_time_spec(c2, TimeSpec_bounded(<<6, "Hours">>, 0, 2)) ELSE c2
    IN  c3

Init ==
    /\ kind \in {"common", "elements", "vectors"}
    /\ touched \in SUBSET {"command", "center", "time_spec"}
    /\ common = RequiredSet(CASE kind = "common" -> CommonBuilder_new
                              [] kind = "elements" -> Query_elements.common
                              [] kind = "vectors" -> Query_vectors.common, touched)
    /\ specific = CASE kind = "common" -> <<>>
                    [] kind = "elements" -> Query_elements.specific
                    [] kind = "vectors" -> Query_vectors.specific
    /\ result = None
    /\ wire = None
    /\ built = 0
    /\ last = None
    /\ nset = 0
    /\ dirty = {}
    /\ reg = None

\* a setter of the common block: fn field(&mut self, arg) -> &mut Self
SetCommonStep(field, arg, c) ==
    /\ common' = c
    /\ nset' = nset + 1
    /\ built' = 0
    /\ last' = [field |-> field, arg |-> <<arg>>, op |-> "set", on |-> "common"]
    /\ touched' = touched \cup {field}
    /\ dirty' = IF result # None /\ result[1] = "Ok"
                THEN (IF last.op = "set" THEN dirty ELSE {}) \cup {field}
                ELSE {}
    /\ UNCHANGED <<kind, specific, result, wire, reg>>

SetCommon(field, arg, c) ==
    /\ nset < MaxSets
    /\ SetCommonStep(field, arg, c)

SetSpecific(k, field, arg, s) ==
    /\ nset < MaxSets
    /\ kind = k
    /\ specific' = s
    /\ nset' = nset + 1
    /\ built' = 0
    /\ last' = [field |-> field, arg |-> <<arg>>, op |-> "set", on |-> "specific"]
    /\ touched' = touched \cup {field}
    /\ dirty' = IF result # None /\ result[1] = "Ok"
                THEN (IF last.op = "set" THEN dirty ELSE {}) \cup {field}
                ELSE {}
    /\ UNCHANGED <<kind, common, result, wire, reg>>

command == \E v \in CommandInputs : SetCommon("command", v, CommonBuilder_command(common, v))
ephem_type == \E v \in EphemTypes : SetCommon("ephem_type", v, CommonBuilder_ephem_type(common, v))
center == \E v \in CenterInputs : SetCommon("center", v, CommonBuilder_center(common, v))
ref_system == \E v \in RefSystems : SetCommon("ref_system", v, CommonBuilder_ref_system(common, v))
time_spec == \E v \in TimeSpecInputs : SetCommon("time_spec", v, CommonBuilder_time_spec(common, v))
format == \E v \in Formats : SetCommon("format", v, CommonBuilder_format(common, v))
obj_data == \E v \in BOOLEAN : SetCommon("obj_data", v, CommonBuilder_obj_data(common, v))
make_ephem == \E v \in BOOLEAN : SetCommon("make_ephem", v, CommonBuilder_make_ephem(common, v))
csv_format == \E v \in BOOLEAN : SetCommon("csv_format", v, CommonBuilder_csv_format(common, v))

tp_type ==
    \E v \in TpTypes : SetSpecific("elements", "tp_type", v, ElementsBuilder_tp_type(specific, v))
elm_out_units ==
    \E v \in OutUnitsSet : SetSpecific("elements", "out_units", v, ElementsBuilder_out_units(specific, v))
elm_ref_plane ==
    \E v \in RefPlanes : SetSpecific("elements", "ref_plane", v, ElementsBuilder_ref_plane(specific, v))
elm_labels ==
    \E v \in BOOLEAN : SetSpecific("elements", "elm_labels", v, ElementsBuilder_elm_labels(specific, v))

table_format ==
    \E v \in TableFormats : SetSpecific("vectors", "table_format", v, VectorsBuilder_table_format(specific, v))
vec_labels ==
    \E v \in BOOLEAN : SetSpecific("vectors", "vec_labels", v, VectorsBuilder_vec_labels(specific, v))
vec_delta_t ==
    \E v \in BOOLEAN : SetSpecific("vectors", "vec_delta_t", v, VectorsBuilder_vec_delta_t(specific, v))
vec_corr ==
    \E v \in Corrections : SetSpecific("vectors", "vec_corr", v, VectorsBuilder_vec_corr(specific, v))
vec_out_units ==
    \E v \in OutUnitsSet : SetSpecific("vectors", "out_units", v, VectorsBuilder_out_units(specific, v))
vec_ref_plane ==
    \E v \in RefPlanes : SetSpecific("vectors", "ref_plane", v, VectorsBuilder_ref_plane(specific, v))

\* build() on the builder the caller owns
build ==
    /\ result' = CASE kind = "common" -> CommonBuilder_build(common)
                   [] kind = "elements" ->
                        QueryBuilder_build_elements([common |-> common, specific |-> specific])
                   [] kind = "vectors" ->
                        QueryBuilder_build_vectors([common |-> common, specific |-> specific])
    /\ common' = CommonBuilder_build_self(common)
    /\ built' = IF built = 0 THEN 1 ELSE 2
    /\ last' = [op |-> "build"]
    /\ UNCHANGED <<kind, specific, wire, nset, touched, dirty, reg>>

Preset(name, target, center_, time, q) ==
    /\ result' = q
    /\ last' = [center |-> center_, target |-> target, time |-> time, op |-> name]
    /\ UNCHANGED <<kind, common, specific, wire, built, nset, touched, dirty, reg>>

call_state_vectors ==
    \E t \in TargetInputs, c \in PresetCenterInputs, ts \in TimeSpecInputs :
        Preset("state_vectors", t, c, ts, state_vectors(t, c, ts))
call_position_vectors ==
    \E t \in TargetInputs, c \in PresetCenterInputs, ts \in TimeSpecInputs :
        Preset("position_vectors", t, c, ts, position_vectors(t, c, ts))
call_velocity_vector ==
    \E t \in TargetInputs, c \in PresetCenterInputs, ts \in TimeSpecInputs :
        Preset("velocity_vector", t, c, ts, velocity_vector(t, c, ts))
call_light_time_vectors ==
    \E t \in TargetInputs, c \in PresetCenterInputs, ts \in TimeSpecInputs :
        Preset("light_time_vectors", t, c, ts, light_time_vectors(t, c, ts))

\* serde_urlencoded::to_string(value): the value is moved into the call
to_string ==
    /\ result # None
    /\ result[1] \in {"Ok", "Query"}
    /\ wire' = [of |-> result[2],
                pairs |-> IF "specific" \in DOMAIN result[2]
                          THEN Query_serialize(result[2])
                          ELSE Common_serialize(result[2])]
    /\ result' = None
    /\ last' = [op |-> "to_string"]
    /\ dirty' = {}
    /\ UNCHANGED <<kind, common, specific, built, nset, touched, reg>>

Next ==
    \/ command \/ ephem_type \/ center \/ ref_system \/ time_spec
    \/ format \/ obj_data \/ make_ephem \/ csv_format
    \/ tp_type \/ elm_out_units \/ elm_ref_plane \/ elm_labels
    \/ table_format \/ vec_labels \/ vec_delta_t \/ vec_corr
    \/ vec_out_units \/ vec_ref_plane
    \/ build
    \/ to_string

Spec == Init /\ [][Next]_vars

\* The presets alone: each call makes its own builder, the caller's is not involved
NextPresets ==
    \/ call_state_vectors \/ call_position_vectors
    \/ call_velocity_vector \/ call_light_time_vectors
    \/ to_string

\* the caller holds a Query::vectors() builder and does not touch it
InitIdle ==
    /\ kind = "vectors"
    /\ common = Query_vectors.common
    /\ specific = Query_vectors.specific
    /\ result = None
    /\ wire = None
    /\ built = 0
    /\ last = None
    /\ nset = 0
    /\ touched = {}
    /\ dirty = {}
    /\ reg = None

SpecPresets == InitIdle /\ [][NextPresets]_vars

\* ---------------------------------------------------------------- registry calls
\* sample bit patterns: the low 32 bits, bits 32..63, bits 64..127
Low32 == {<<0, 0>>, <<5, 0>>, <<598, 0>>, <<599, 0>>, <<65093, 0>>, <<65094, 0>>,
          <<599, 1>>, <<Limb - 1, Limb - 1>>, <<0, HalfLimb>>}
High32 == {<<0, 0>>, <<1, 0>>, <<Limb - 1, Limb - 1>>, <<0, HalfLimb>>}
High64 == {<<0, 0, 0, 0>>, <<1, 0, 0, 0>>, <<Limb - 1, Limb - 1, Limb - 1, Limb - 1>>,
           <<0, 0, 0, HalfLimb>>}

IntInputs(n) ==
    CASE n = 2 -> Low32
      [] n = 4 -> {l \o h : l \in Low32, h \in High32}
      [] n = 8 -> {l \o h \o g : l \in Low32, h \in High32, g \in High64}

\* MajorBody::try_from(num) on an integer the caller supplies
\* (reg records one chain of conversions, begun from nothing)
call_try_from ==
    \E ty \in IntTypes, pw \in PointerWidths :
        \E bits \in IntInputs(NLimbs(ty, pw)) :
            /\ reg = None
            /\ reg' = [arg |-> [ty |-> ty, bits |-> bits], op |-> "try_from",
                       out |-> MajorBody_try_from(ty, bits), src |-> None]
            /\ UNCHANGED builder

\* u32::from(body) on a body the caller names
call_u32_from ==
    \E b \in MajorBodyNames :
        /\ reg = None
        /\ reg' = [arg |-> b, op |-> "u32_from", out |-> MajorBody_as_u32(b), src |-> None]
        /\ UNCHANGED builder

\* MajorBody::try_from(u32::from(body)), through any integer type
call_try_from_encoded ==
    /\ reg # None
    /\ reg.op = "u32_from"
    /\ \E ty \in IntTypes, pw \in PointerWidths :
        LET bits == ToLimbs(reg.out, NLimbs(ty, pw))
        IN  reg' = [arg |-> [ty |-> ty, bits |-> bits], op |-> "try_from",
                    out |-> MajorBody_try_from(ty, bits), src |-> Some(reg.arg)]
    /\ UNCHANGED builder

\* u32::from(MajorBody::try_from(num)?)
call_u32_from_decoded ==
    /\ reg # None
    /\ reg.op = "try_from"
    /\ reg.out[1] = "Ok"
    /\ reg' = [arg |-> reg.out[2], op |-> "u32_from", out |-> MajorBody_as_u32(reg.out[2]),
               src |-> Some(reg.arg)]
    /\ UNCHANGED builder

NextBodies ==
    \/ call_try_from \/ call_u32_from \/ call_try_from_encoded \/ call_u32_from_decoded

SpecBodies == InitIdle /\ [][NextBodies]_vars

\* ---------------------------------------------------------------- the retry loop
\* build(), and on UninitializedField(f) the setter of f, then build() again
\* the name of the caller's last call
LastOp == IF last = None THEN "none" ELSE last.op

ReportedField == IF kind = "common" THEN result[2][2] ELSE result[2][2][2]

BuildFailed == LastOp = "build" /\ result[1] = "Err"

retry_build == built = 0 /\ build

retry_command ==
    /\ BuildFailed /\ ReportedField = "command"
    /\ \E v \in CommandInputs : SetCommonStep("command", v, CommonBuilder_command(common, v))

retry_ephem_type ==
    /\ BuildFailed /\ ReportedField = "ephem_type"
    /\ \E v \in EphemTypes : SetCommonStep("ephem_type", v, CommonBuilder_ephem_type(common, v))

retry_center ==
    /\ BuildFailed /\ ReportedField = "center"
    /\ \E v \in CenterInputs : SetCommonStep("center", v, CommonBuilder_center(common, v))

retry_time_spec ==
    /\ BuildFailed /\ ReportedField = "time_spec"
    /\ \E v \in TimeSpecInputs : SetCommonStep("time_spec", v, CommonBuilder_time_spec(common, v))

NextRetry ==
    \/ retry_build
    \/ retry_command \/ retry_ephem_type \/ retry_center \/ retry_time_spec

\* the caller keeps going: a step of the loop that can be taken is taken
SpecRetry == Init /\ [][NextRetry]_vars /\ WF_vars(NextRetry)

\* ---------------------------------------------------------------- values on the wire
\* The values a caller can hand to center() and time_spec(): every StepSizeUnit
\* with small and large u32 magnitudes, Bounded ranges in every order of start
\* and stop, lists of up to MaxList instants, known and custom bodies, the
\* default site and u16 site codes.
MaxList == 2

StepSizeUnits == {"Unitless", "Minutes", "Hours", "Days", "Years", "Months"}
StepValues == {0, 1, 6, 60, 2147483647}
Instants == 0..3
SiteCodes == {0, 399, 500, 65535}
CustomBodies == {"DES=2000001", ""}
KnownBodies == {SolarSystemBary, "Sun", "Earth", Jupiter, Europa}

\* Body::Custom(String)
Body_Custom(s) == <<"Custom", s>>

BodyValues == {Body_from(b) : b \in KnownBodies} \cup {Body_Custom(s) : s \in CustomBodies}

\* From<B> for Center and From<(S, B)> for Center, B a Body already
Center_from_Body(body) == [body |-> body, site |-> <<"Center">>]
Center_from_pair_Body(site, body) == [body |-> body, site |-> Site_from(site)]

CenterValues ==
    {Center_from_Body(b) : b \in BodyValues}
    \cup {Center_from_pair_Body(n, b) : n \in SiteCodes, b \in BodyValues}

Lists(n) == UNION {[1..k -> Instants] : k \in 0..n}

\* the constructor calls: TimeSpec::bounded((value, unit), start, stop) and
\* TimeSpec::from_list(list)
TimeSpecCalls ==
    {<<"bounded", <<v, u>>, 0, 2>> : v \in StepValues, u \in StepSizeUnits}
    \cup {<<"bounded", <<6, "Hours">>, a, b>> : a \in 0..2, b \in 0..2}
    \cup {<<"from_list", l>> : l \in Lists(MaxList)}

TimeSpec_call(c) ==
    IF c[1] = "bounded" THEN TimeSpec_bounded(c[2], c[3], c[4]) ELSE TimeSpec_from_list(c[2])

\* builder.common.center(v), once
center_value ==
    /\ "center" \notin touched
    /\ \E v \in CenterValues : SetCommonStep("center", v, CommonBuilder_center(common, v))

\* builder.common.time_spec(TimeSpec::bounded(..)) or (TimeSpec::from_list(..)), once;
\* last.arg keeps the constructor call
time_spec_value ==
    /\ "time_spec" \notin touched
    /\ \E c \in TimeSpecCalls :
           SetCommonStep("time_spec", c, CommonBuilder_time_spec(common, TimeSpec_call(c)))

\* Query::elements() or Query::vectors(), with command(MajorBody::Jupiter) called
InitValues ==
    /\ kind \in {"elements", "vectors"}
    /\ touched = {"command"}
    /\ common = RequiredSet(IF kind = "elements" THEN Query_elements.common
                            ELSE Query_vectors.common, touched)
    /\ specific = IF kind = "elements" THEN Query_elements.specific ELSE Query_vectors.specific
    /\ result = None
    /\ wire = None
    /\ built = 0
    /\ last = None
    /\ nset = 0
    /\ dirty = {}
    /\ reg = None

NextValues == center_value \/ time_spec_value \/ build \/ to_string

SpecValues == InitValues /\ [][NextValues]_vars

\* ================================================================ properties
RequiredFields == <<"command", "ephem_type", "center", "time_spec">>
UnsetRequired == {i \in 1..Len(RequiredFields) : common[RequiredFields[i]] = None}
FirstUnset == RequiredFields[CHOOSE i \in UnsetRequired : \A j \in UnsetRequired : i <= j]

\* the CommonBuilderError inside the error a build() returned
CommonErrorOf(e) == IF kind = "common" THEN e ELSE e[2]

\* C1: right after build(), the result is Ok exactly when command, ephem_type,
\* center and time_spec are all set in the builder; otherwise it is
\* UninitializedField naming the first unset one in that order, whatever the
\* other fields hold and in whatever order the setters ran.
C1_BuildNeedsAllRequired ==
    LastOp = "build" =>
        IF UnsetRequired = {} THEN result[1] = "Ok"
        ELSE /\ result[1] = "Err"
             /\ CommonErrorOf(result[2]) = <<"UninitializedField", FirstUnset>>

\* a bare CommonBuilder with command set, ephem_type and time_spec unset, an
\* optional field changed: build() reported ephem_type
C1_Witness ==
    /\ kind = "common"
    /\ LastOp = "build"
    /\ common.command # None
    /\ common.ephem_type = None
    /\ common.time_spec = None
    /\ common.csv_format = TRUE
    /\ result = Err(<<"UninitializedField", "ephem_type">>)

\* C2: a build() that directly follows a build(), no setter in between, returns
\* the value the first one returned.
C2_BuildIdempotent ==
    [][(LastOp = "build" /\ LastOp' = "build") => result' = result]_vars

\* two build() calls in a row on a complete builder
C2_Witness == built = 2 /\ LastOp = "build" /\ result[1] = "Ok"

\* C3: a build() step, successful or not, leaves every field of the builder as it was.
C3_BuildLeavesBuilder ==
    [][LastOp' = "build" => (kind' = kind /\ common' = common /\ specific' = specific)]_vars

\* a failed build() on a builder that holds values the caller set
C3_Witness ==
    /\ LastOp = "build"
    /\ result[1] = "Err"
    /\ nset > 0
    /\ common.center # None
    /\ common # CommonBuilder_default

OptionFields == {"command", "ephem_type", "center", "time_spec"}

\* C4: a setter step puts the value passed into the field it names and changes
\* nothing else: no other field of that builder, no field of the sibling
\* builder, and no result or error is produced.
C4_SetterSetsOneField ==
    [][nset' = nset + 1 =>
        /\ last'.op = "set"
        /\ IF last'.on = "common"
           THEN /\ common' = [common EXCEPT ![last'.field] =
                                 IF last'.field \in OptionFields THEN Some(last'.arg[1])
                                 ELSE last'.arg[1]]
                /\ specific' = specific
           ELSE /\ specific' = [specific EXCEPT ![last'.field] = last'.arg[1]]
                /\ common' = common
        /\ kind' = kind /\ result' = result /\ wire' = wire]_vars

\* vec_corr(LT_S) was the last call, on a builder whose common block holds a command
C4_Witness ==
    /\ LastOp = "set"
    /\ last.on = "specific"
    /\ last.field = "vec_corr"
    /\ last.arg = <<"LT_S">>
    /\ specific.vec_corr = "LT_S"
    /\ common.command # None

Keys(pairs) == [i \in 1..Len(pairs) |-> pairs[i][1]]
IsQuery(v) == "specific" \in DOMAIN v

CommonKeys ==
    <<"command", "ephem_type", "center", "ref_system", "format",
      "obj_data", "make_ephem", "csv_format">>
BoundedKeys == <<"step_size", "start_time", "stop_time">>
ListKeys == <<"tlist">>
ElementsKeys == <<"tp_type", "out_units", "ref_plane", "elm_labels">>
VectorsKeys == <<"vec_table", "vec_labels", "vec_delta_t", "vec_corr", "out_units", "ref_plane">>

\* C5: every serialized Query lists command, ephem_type, center, ref_system,
\* format, obj_data, make_ephem, csv_format, then the TimeSpec field(s) of its
\* variant, then the fields of its specific block in that block's order,
\* whatever setters ran and in whatever order.
C5_FieldOrderFixed ==
    (wire # None /\ IsQuery(wire.of)) =>
        Keys(wire.pairs) =
            CommonKeys
            \o (IF wire.of.common.time_spec[1] = "Bounded" THEN BoundedKeys ELSE ListKeys)
            \o (IF wire.of.specific[1] = "Elements" THEN ElementsKeys ELSE VectorsKeys)

\* an Elements query with a List time spec was serialized after format and
\* time_spec were set in that order
C5_Witness ==
    /\ wire # None
    /\ IsQuery(wire.of)
    /\ wire.of.specific[1] = "Elements"
    /\ wire.of.common.time_spec[1] = "List"
    /\ wire.of.common.format = "Json"
    /\ Len(wire.pairs) = 13

\* the protocol defaults of a vectors query, as wire tokens
DefaultTokens ==
    [ephem_type |-> "V", ref_system |-> "ICRF", format |-> "text", obj_data |-> "yes",
     make_ephem |-> "yes", csv_format |-> "no", out_units |-> "km-s", ref_plane |-> "E",
     vec_labels |-> "yes", vec_delta_t |-> "no", vec_corr |-> "NONE", vec_table |-> "3"]

\* the builder field a wire key is made from
FieldOfKey(k) == IF k = "vec_table" THEN "table_format" ELSE k

TokenOf(pairs, k) == pairs[CHOOSE i \in 1..Len(pairs) : pairs[i][1] = k][2]

\* the string tests::test_query expects, before percent-encoding
TestQueryPairs ==
    << <<"command", "599">>, <<"ephem_type", "V">>, <<"center", "500@0">>,
       <<"ref_system", "ICRF">>, <<"format", "text">>, <<"obj_data", "no">>,
       <<"make_ephem", "yes">>, <<"csv_format", "no">>, <<"step_size", "6h">>,
       <<"start_time", "2022-08-28T00:00:00Z">>, <<"stop_time", "2022-08-30T00:00:00Z">>,
       <<"vec_table", "3">>, <<"vec_labels", "yes">>, <<"vec_delta_t", "no">>,
       <<"vec_corr", "LT+S">>, <<"out_units", "km-s">>, <<"ref_plane", "E">> >>

\* the Query::vectors() builder was built and the Query serialized, no setter since
VectorsSerialized == kind = "vectors" /\ LastOp = "to_string" /\ built > 0

\* C6: in a Query built from Query::vectors(), every field whose setter the
\* caller never called carries its protocol default (ephem_type=V,
\* ref_system=ICRF, format=text, obj_data=yes, make_ephem=yes, csv_format=no,
\* vec_table=3, vec_labels=yes, vec_delta_t=no, vec_corr=NONE, out_units=km-s,
\* ref_plane=E), whatever other setters were called; obj_data(false) gives
\* obj_data=no and vec_corr(LT_S) gives vec_corr=LT+S, and with exactly those
\* two next to Jupiter, 500@0 and the 6h bounded time spec the serialized
\* query is the one tests::test_query expects.
C6_VectorsDefaults ==
    VectorsSerialized =>
        /\ \A k \in DOMAIN DefaultTokens :
            FieldOfKey(k) \notin touched => TokenOf(wire.pairs, k) = DefaultTokens[k]
        /\ ("obj_data" \in touched /\ ~common.obj_data) => TokenOf(wire.pairs, "obj_data") = "no"
        /\ ("vec_corr" \in touched /\ specific.vec_corr = "LT_S") =>
                TokenOf(wire.pairs, "vec_corr") = "LT+S"
        /\ ( /\ touched = {"command", "center", "time_spec", "obj_data", "vec_corr"}
             /\ common.command = Some(Command_from(Jupiter))
             /\ common.center = Some(Center_from(SolarSystemBary))
             /\ common.time_spec = Some(TimeSpec_bounded(<<6, "Hours">>, 0, 2))
             /\ ~common.obj_data
             /\ specific.vec_corr = "LT_S" ) => wire.pairs = TestQueryPairs

\* the caller called command, center and time_spec only, built and serialized
C6_Witness ==
    /\ VectorsSerialized
    /\ touched = {"command", "center", "time_spec"}
    /\ Len(wire.pairs) >= 15

\* the vec_table each preset is to produce
PresetVecTable ==
    [state_vectors |-> "2", position_vectors |-> "1",
     velocity_vector |-> "5", light_time_vectors |-> "6"]

\* what every preset returns for (target, center, time), vec_table left out
PresetQuery(target, center_, time) ==
    [common |-> [command |-> <<"Body", target>>, ephem_type |-> "Vectors", center |-> center_,
                 ref_system |-> "ICRF", time_spec |-> time, format |-> "Text",
                 obj_data |-> "Yes", make_ephem |-> "Yes", csv_format |-> "No"],
     specific |-> <<"Vectors", [out_units |-> "KM_S", ref_plane |-> "Ecliptic", vec_labels |-> "Yes",
                                vec_delta_t |-> "No", vec_corr |-> "None",
                                vec_table |-> "-"]>>]

\* the strings tests::test_vectors expects, before percent-encoding
TestVectorsPairs(vec_table) ==
    << <<"command", "502">>, <<"ephem_type", "V">>, <<"center", "500@599">>,
       <<"ref_system", "ICRF">>, <<"format", "text">>, <<"obj_data", "yes">>,
       <<"make_ephem", "yes">>, <<"csv_format", "no">>, <<"tlist", "2022-08-31T00:00:00Z">>,
       <<"vec_table", vec_table>>, <<"vec_labels", "yes">>, <<"vec_delta_t", "no">>,
       <<"vec_corr", "NONE">>, <<"out_units", "km-s">>, <<"ref_plane", "E">> >>

\* C7: for every target, center and TimeSpec, state_vectors, velocity_vector,
\* position_vectors and light_time_vectors return a Query (no panic) whose
\* vec_table is 2, 5, 1 and 6, and which is the same Query in every other
\* field; for Europa, Jupiter and the list of 2022-08-31T00:00:00Z it
\* serializes to the string tests::test_vectors expects.
C7_PresetsDifferInVecTable ==
    LastOp \in DOMAIN PresetVecTable =>
        /\ result[1] = "Query"
        /\ TokenOf(Query_serialize(result[2]), "vec_table") = PresetVecTable[LastOp]
        /\ result[2].common = PresetQuery(last.target, last.center, last.time).common
        /\ result[2].specific[1] = "Vectors"
        /\ DOMAIN result[2].specific[2] = DOMAIN PresetQuery(last.target, last.center, last.time).specific[2]
        /\ \A f \in DOMAIN result[2].specific[2] \ {"vec_table"} :
               result[2].specific[2][f] = PresetQuery(last.target, last.center, last.time).specific[2][f]
        /\ ( /\ last.target = Body_from(Europa)
             /\ last.center = Center_from(Jupiter)
             /\ last.time = TimeSpec_from_list(<<3>>) ) =>
                Query_serialize(result[2]) = TestVectorsPairs(PresetVecTable[LastOp])

\* velocity_vector was called with the arguments of tests::test_vectors
C7_Witness ==
    /\ LastOp = "velocity_vector"
    /\ last.target = Body_from(Europa)
    /\ last.center = Center_from(Jupiter)
    /\ last.time = TimeSpec_from_list(<<3>>)
    /\ result[1] = "Query"
    /\ result[2].specific[2].vec_table = "Velocity"

RegOp == IF reg = None THEN "none" ELSE reg.op

\* C8: decoding the code of a body gives that body back, through every integer
\* type; no two bodies have the same code; and the code of a body that an
\* integer decoded to is that integer.
C8_RegistryBijection ==
    /\ (RegOp = "try_from" /\ reg.src # None) => reg.out = Ok(reg.src[1])
    /\ RegOp = "u32_from" =>
            \A b \in MajorBodyNames : MajorBody_as_u32(b) = reg.out => b = reg.arg
    /\ (RegOp = "u32_from" /\ reg.src # None) =>
            ToLimbs(reg.out, Len(reg.src[1].bits)) = reg.src[1].bits

\* the code of Styx, the last body of the table, was decoded from an i128
C8_Witness ==
    /\ RegOp = "try_from"
    /\ reg.arg.ty = "i128"
    /\ reg.src = Some("Styx")
    /\ reg.out = Ok("Styx")

\* The mathematical integer a bit pattern of type ty stands for: its sign and
\* the limbs of its magnitude, most significant zero limbs dropped.
RECURSIVE Strip(_)
Strip(bits) ==
    IF bits = <<>> THEN <<>>
    ELSE IF bits[Len(bits)] = 0 THEN Strip(SubSeq(bits, 1, Len(bits) - 1))
    ELSE bits

RECURSIVE AddOne(_)
AddOne(bits) ==
    IF bits = <<>> THEN <<>>
    ELSE IF bits[1] = Limb - 1 THEN <<0>> \o AddOne(Tail(bits))
    ELSE <<bits[1] + 1>> \o Tail(bits)

Invert(bits) == [i \in 1..Len(bits) |-> Limb - 1 - bits[i]]

MathValue(ty, bits) ==
    IF IsNegative(ty, bits) THEN [neg |-> TRUE, mag |-> Strip(AddOne(Invert(bits)))]
    ELSE [neg |-> FALSE, mag |-> Strip(bits)]

\* C9: for every integer type and every integer of it that is no body code,
\* try_from fails with InvalidBodyCode carrying the integer that was supplied,
\* and the same integer supplied in another type has the same outcome.
C9_InvalidCodeCarriesInput ==
    (RegOp = "try_from" /\ reg.out[1] = "Err") =>
        /\ reg.out[2][1] = "InvalidBodyCode"
        /\ MathValue("i64", reg.out[2][2]) = MathValue(reg.arg.ty, reg.arg.bits)
        /\ \A ty \in IntTypes, pw \in PointerWidths :
            \A bits \in IntInputs(NLimbs(ty, pw)) :
                MathValue(ty, bits) = MathValue(reg.arg.ty, reg.arg.bits)
                    => MajorBody_try_from(ty, bits) = reg.out

\* the wire tokens of the protocol's contract table
ContractTokens ==
    [HzBool |-> [Yes |-> "yes", No |-> "no"],
     EphemType |-> [Observer |-> "O", Elements |-> "E", Vectors |-> "V"],
     Format |-> [Text |-> "text", Json |-> "json"],
     RefPlane |-> [Ecliptic |-> "E", Frame |-> "F", BodyEquator |-> "B"],
     RefSystem |-> [ICRF |-> "ICRF", B1950 |-> "B1950"],
     OutUnits |-> [KM_D |-> "km-d", KM_S |-> "km-s", AU_D |-> "au-d"],
     Correction |-> [None |-> "NONE", LT |-> "LT", LT_S |-> "LT+S"]]

YesNo(b) == IF b THEN "yes" ELSE "no"

WireCommon == IF IsQuery(wire.of) THEN wire.of.common ELSE wire.of

\* C10: in every serialized value each primitive field holds the token the
\* contract table gives for its value (yes/no, O/E/V, text/json, E/F/B,
\* ICRF/B1950, km-d/km-s/au-d, NONE/LT/LT+S); a flag the builder holds as
\* true or false comes out as yes or no; and within each primitive distinct
\* values encode to distinct tokens.
C10_PrimitiveTokens ==
    /\ wire # None =>
        /\ TokenOf(wire.pairs, "ephem_type") = ContractTokens.EphemType[WireCommon.ephem_type]
        /\ TokenOf(wire.pairs, "format") = ContractTokens.Format[WireCommon.format]
        /\ TokenOf(wire.pairs, "ref_system") = ContractTokens.RefSystem[WireCommon.ref_system]
        /\ \A k \in {"obj_data", "make_ephem", "csv_format"} :
                TokenOf(wire.pairs, k) = ContractTokens.HzBool[WireCommon[k]]
        /\ IsQuery(wire.of) =>
            LET block == wire.of.specific[2]
            IN  /\ TokenOf(wire.pairs, "out_units") = ContractTokens.OutUnits[block.out_units]
                /\ TokenOf(wire.pairs, "ref_plane") = ContractTokens.RefPlane[block.ref_plane]
                /\ wire.of.specific[1] = "Elements" =>
                        TokenOf(wire.pairs, "elm_labels") = ContractTokens.HzBool[block.elm_labels]
                /\ wire.of.specific[1] = "Vectors" =>
                    /\ TokenOf(wire.pairs, "vec_corr") = ContractTokens.Correction[block.vec_corr]
                    /\ \A k \in {"vec_labels", "vec_delta_t"} :
                            TokenOf(wire.pairs, k) = ContractTokens.HzBool[block[k]]
    /\ (LastOp = "to_string" /\ built > 0) =>
        /\ \A k \in {"obj_data", "make_ephem", "csv_format"} :
                TokenOf(wire.pairs, k) = YesNo(common[k])
        /\ kind = "elements" => TokenOf(wire.pairs, "elm_labels") = YesNo(specific.elm_labels)
        /\ kind = "vectors" =>
                \A k \in {"vec_labels", "vec_delta_t"} :
                    TokenOf(wire.pairs, k) = YesNo(specific[k])
    /\ \A a, b \in {"Yes", "No"} : a # b => HzBool_serialize(a) # HzBool_serialize(b)
    /\ \A a, b \in EphemTypes : a # b => EphemType_serialize(a) # EphemType_serialize(b)
    /\ \A a, b \in Formats : a # b => Format_serialize(a) # Format_serialize(b)
    /\ \A a, b \in RefPlanes : a # b => RefPlane_serialize(a) # RefPlane_serialize(b)
    /\ \A a, b \in RefSystems : a # b => RefSystem_serialize(a) # RefSystem_serialize(b)
    /\ \A a, b \in OutUnitsSet : a # b => OutUnits_serialize(a) # OutUnits_serialize(b)
    /\ \A a, b \in Corrections : a # b => Correction_serialize(a) # Correction_serialize(b)

\* an Observer request in JSON with obj_data off was serialized
C10_Witness ==
    /\ wire # None
    /\ LastOp = "to_string"
    /\ built > 0
    /\ WireCommon.ephem_type = "Observer"
    /\ ~common.obj_data
    /\ TokenOf(wire.pairs, "ephem_type") = "O"
    /\ TokenOf(wire.pairs, "obj_data") = "no"

\* ---------------------------------------------------------------- C11
\* the decimal digits of the magnitudes the callers pass
Decimal(n) ==
    CASE n = 0 -> "0" [] n = 1 -> "1" [] n = 6 -> "6" [] n = 60 -> "60"
      [] n = 399 -> "399" [] n = 500 -> "500" [] n = 65535 -> "65535"
      [] n = 2147483647 -> "2147483647"

\* the unit abbreviations of the contract
UnitSuffix(u) ==
    CASE u = "Minutes" -> "m" [] u = "Hours" -> "h" [] u = "Days" -> "d"
      [] u = "Months" -> "mo" [] u = "Years" -> "y" [] u = "Unitless" -> ""

WireBounded == LastOp = "to_string" /\ WireCommon.time_spec[1] = "Bounded"
WireList == LastOp = "to_string" /\ WireCommon.time_spec[1] = "List"

\* C11: the step_size field of a serialized Query is the decimal value of the
\* StepSize immediately followed by the abbreviation of its unit (m, h, d, mo,
\* y, nothing for unitless); (6, Hours) is 6h.
C11_StepSizeToken ==
    /\ WireBounded =>
          LET step == WireCommon.time_spec[2].step_size
          IN  TokenOf(wire.pairs, "step_size") = Decimal(step.value) \o UnitSuffix(step.unit)
    /\ StepSize_serialize(StepSize_from(6, "Hours")) = "6h"

\* a Query with a step of 60 months was serialized
C11_Witness ==
    /\ WireBounded
    /\ WireCommon.time_spec[2].step_size = StepSize_from(60, "Months")
    /\ TokenOf(wire.pairs, "step_size") = "60mo"

\* ---------------------------------------------------------------- C12
\* the codes of the known bodies the callers pass
KnownCode(b) ==
    CASE b = "SolarSystemBary" -> "0" [] b = "Sun" -> "10" [] b = "Earth" -> "399"
      [] b = "Jupiter" -> "599" [] b = "Europa" -> "502"

\* a known body is its integer code, a custom body the caller's string
BodyToken(body) == IF body[1] = "MajorBody" THEN KnownCode(body[2]) ELSE body[2]

\* the default site is 500, a site code its decimal digits
SiteToken(site) == IF site = <<"Center">> THEN "500" ELSE Decimal(site[2])

CenterPairs == SelectSeq(wire.pairs, LAMBDA kv : kv[1] = "center")

\* C12: a Center made from a body alone has the default site and serializes
\* as 500@{body}; a Center made from (site, body) serializes as {site}@{body};
\* a serialized Query holds the center as exactly one field, whose value is
\* {site-token}@{body-token} with a known body as its integer code and a
\* custom body as the caller's string.
C12_CenterToken ==
    /\ \A b \in BodyValues :
          /\ Center_from_Body(b).site = <<"Center">>
          /\ Center_serialize(Center_from_Body(b)) = "500@" \o BodyToken(b)
          /\ \A n \in SiteCodes :
                Center_serialize(Center_from_pair_Body(n, b)) = Decimal(n) \o "@" \o BodyToken(b)
    /\ LastOp = "to_string" =>
          /\ Len(CenterPairs) = 1
          /\ CenterPairs[1][2] = SiteToken(WireCommon.center.site) \o "@"
                                      \o BodyToken(WireCommon.center.body)

\* a Query whose center is site 65535 on a custom body was serialized
C12_Witness ==
    /\ LastOp = "to_string"
    /\ WireCommon.center = Center_from_pair_Body(65535, Body_Custom("DES=2000001"))
    /\ TokenOf(wire.pairs, "center") = "65535@DES=2000001"

\* ---------------------------------------------------------------- C13
\* the RFC 3339 text of the instants the callers pass
Stamp(t) ==
    CASE t = 0 -> "2022-08-28T00:00:00Z" [] t = 1 -> "2022-08-29T00:00:00Z"
      [] t = 2 -> "2022-08-30T00:00:00Z" [] t = 3 -> "2022-08-31T00:00:00Z"

\* the instants of a list, in the order given, with a comma between neighbours
RECURSIVE CommaJoined(_)
CommaJoined(l) ==
    IF Len(l) = 0 THEN ""
    ELSE IF Len(l) = 1 THEN Stamp(l[1])
    ELSE CommaJoined(SubSeq(l, 1, Len(l) - 1)) \o "," \o Stamp(l[Len(l)])

TimeKeys == {"step_size", "start_time", "stop_time", "tlist"}
TimePairs == SelectSeq(wire.pairs, LAMBDA kv : kv[1] \in TimeKeys)

\* C13: the TimeSpec of a serialized Query gives either exactly the fields
\* step_size, start_time, stop_time (Bounded) or exactly the field tlist
\* (List), never both groups and never neither; the tlist value is the
\* instants of the list comma-joined in the order the caller gave them.
C13_TimeSpecFields ==
    LastOp = "to_string" =>
        /\ WireCommon.time_spec[1] \in {"Bounded", "List"}
        /\ WireCommon.time_spec[1] = "Bounded" => Keys(TimePairs) = BoundedKeys
        /\ WireCommon.time_spec[1] = "List" =>
              /\ Keys(TimePairs) = ListKeys
              /\ TimePairs[1][2] = CommaJoined(WireCommon.time_spec[2].tlist)

\* a Query with the list (2022-08-31, 2022-08-28) was serialized
C13_Witness ==
    /\ WireList
    /\ WireCommon.time_spec[2].tlist = <<3, 0>>
    /\ TokenOf(wire.pairs, "tlist") = "2022-08-31T00:00:00Z,2022-08-28T00:00:00Z"
    /\ Len(TimePairs) = 1

\* ---------------------------------------------------------------- C14
\* C14: build() on a QueryBuilder fails exactly when build() on its common
\* block fails, and then returns CommonBuilderError holding the error of the
\* common block as it is; whatever the specific block was set to, build()
\* succeeds when the four required fields of the common block are set.
C14_QueryBuildWrapsCommonError ==
    (LastOp = "build" /\ kind # "common") =>
        LET c == CommonBuilder_build(common)
        IN  /\ result[1] \in {"Ok", "Err"}
            /\ result[1] = "Err" <=> c[1] = "Err"
            /\ c[1] = "Err" => result[2] = <<"CommonBuilderError", c[2]>>
            /\ c[1] = "Err" => c[2] = <<"UninitializedField", FirstUnset>>
            /\ UnsetRequired = {} => result[1] = "Ok" /\ result[2].common = c[2]

\* build() of a Query::vectors() builder failed on time_spec after a setter
\* of the specific block was called
C14_Witness ==
    /\ LastOp = "build"
    /\ kind = "vectors"
    /\ specific # VectorsBuilder_default
    /\ result = <<"Err", <<"CommonBuilderError", <<"UninitializedField", "time_spec">>>>>>

\* ---------------------------------------------------------------- C15
\* C15: in every Query that build() returns, the ephem_type of the common
\* block is Elements exactly when the specific block is Elements, and Vectors
\* exactly when it is Vectors.
C15_TagAgreesWithSpecific ==
    (LastOp = "build" /\ kind # "common" /\ result[1] = "Ok") =>
        /\ result[2].common.ephem_type = "Elements" <=> result[2].specific[1] = "Elements"
        /\ result[2].common.ephem_type = "Vectors" <=> result[2].specific[1] = "Vectors"

\* ---------------------------------------------------------------- C16
BuildSucceeded == LastOp = "build" /\ result[1] = "Ok"

\* C16: a constructor leaves no error and an error appears only in a build()
\* step; build() never reports a field whose setter was called; in the loop
\* of build() and the setter of the reported field every failed build is one
\* of at most four, and the loop reaches a build() that succeeds.
C16_UninitializedRecoverable ==
    /\ [](LastOp = "none" => result = None)
    /\ [][(result' # result /\ result' # None /\ result'[1] = "Err") => LastOp' = "build"]_vars
    /\ [](BuildFailed => ReportedField \notin touched)
    /\ [](BuildFailed => nset + 1 <= 4)
    /\ <>BuildSucceeded

\* CommonBuilder::new() was built four times in vain, each time followed by
\* the setter of the field reported, and the fifth build() succeeded
C16_Witness ==
    /\ kind = "common"
    /\ nset = 4
    /\ touched = {"command", "ephem_type", "center", "time_spec"}
    /\ BuildSucceeded

\* ---------------------------------------------------------------- C17
\* the builder fields in which two built values differ
Differing(old, new) ==
    IF IsQuery(old)
    THEN {f \in DOMAIN old.common : old.common[f] # new.common[f]}
         \cup (IF old.specific[1] # new.specific[1] THEN {"specific"}
               ELSE {FieldOfKey(f) : f \in {g \in DOMAIN old.specific[2] :
                                               old.specific[2][g] # new.specific[2][g]}})
    ELSE {f \in DOMAIN old : old[f] # new[f]}

HoldsBuilt == result # None /\ result[1] = "Ok"

\* C17: a setter step leaves the value an earlier build() returned as it was,
\* and a build() made while the caller holds an earlier built value succeeds
\* with a value that differs from the earlier one in no field other than
\* those whose setter was called in between.
C17_BuiltValueImmutable ==
    [][/\ LastOp' = "set" => result' = result
       /\ (LastOp' = "build" /\ HoldsBuilt) =>
             /\ result'[1] = "Ok"
             /\ Differing(result[2], result'[2]) \subseteq dirty]_vars

\* a Query was built, format(Json) and vec_corr(LT) were called, and the
\* Query built after them has Json and LT
C17_Witness ==
    /\ LastOp = "build"
    /\ HoldsBuilt
    /\ dirty = {"format", "vec_corr"}
    /\ result[2].common.format = "Json"
    /\ result[2].specific[2].vec_corr = "LT"

\* ---------------------------------------------------------------- C18
\* C18: every List TimeSpec held by a built Query contains at least one
\* instant.
C18_ListNeverEmpty ==
    (HoldsBuilt /\ result[2].common.time_spec[1] = "List") =>
        Len(result[2].common.time_spec[2].tlist) >= 1

\* ---------------------------------------------------------------- C19
\* C19: every StepSize held by a built Query, and every step_size field
\* serialized from one, has a value of at least 1.
C19_StepSizePositive ==
    /\ (HoldsBuilt /\ result[2].common.time_spec[1] = "Bounded") =>
          result[2].common.time_spec[2].step_size.value >= 1
    /\ WireBounded => WireCommon.time_spec[2].step_size.value >= 1

\* ---------------------------------------------------------------- C20
SetTimeSpec == LastOp = "set" /\ last.field = "time_spec"

\* C20: the TimeSpec stored by time_spec(TimeSpec::bounded(step, start, stop))
\* is Bounded with that step, start and stop, whatever their order, and the
\* one stored by time_spec(TimeSpec::from_list(list)) is List with that list,
\* of any length; build() with center set as well succeeds and the Query
\* holds that TimeSpec; serialized, start_time and stop_time are the instants
\* given and the empty list is a tlist field with empty content.
C20_TimeSpecUnvalidated ==
    /\ (SetTimeSpec /\ last.arg[1][1] = "bounded") =>
          common.time_spec = <<<<"Bounded", [step_size |-> [value |-> last.arg[1][2][1],
                                                            unit |-> last.arg[1][2][2]],
                                            start_time |-> last.arg[1][3],
                                            stop_time |-> last.arg[1][4]]>>>>
    /\ (SetTimeSpec /\ last.arg[1][1] = "from_list") =>
          common.time_spec = <<<<"List", [tlist |-> last.arg[1][2]]>>>>
    /\ (LastOp = "build" /\ {"center", "time_spec"} \subseteq touched) =>
          /\ result[1] = "Ok"
          /\ result[2].common.time_spec = common.time_spec[1]
    /\ WireBounded =>
          /\ TokenOf(wire.pairs, "start_time") = Stamp(WireCommon.time_spec[2].start_time)
          /\ TokenOf(wire.pairs, "stop_time") = Stamp(WireCommon.time_spec[2].stop_time)
    /\ (WireList /\ WireCommon.time_spec[2].tlist = <<>>) => TokenOf(wire.pairs, "tlist") = ""

\* a Query whose range stops a day before it starts was serialized
C20_Witness ==
    /\ WireBounded
    /\ WireCommon.time_spec[2].start_time = 2
    /\ WireCommon.time_spec[2].stop_time = 1
    /\ TokenOf(wire.pairs, "start_time") = "2022-08-30T00:00:00Z"
    /\ TokenOf(wire.pairs, "stop_time") = "2022-08-29T00:00:00Z"

====
